---- MODULE Spec2Model ----
(***************************************************************************)
(* A model of kakarot_scripts/ef_tests/debug.py: the harness that loads    *)
(* one EF test vector, launches anvil, seeds the pre-state, replays the    *)
(* block's transactions and compares the live state with postState.        *)
(*                                                                         *)
(* Strings that the code parses are modelled by what the parse reads:      *)
(*   - a file name, TEST_NAME, TEST_PARENT_FOLDER: a sequence of           *)
(*     characters (Python's `in` is the substring test);                   *)
(*   - a hex string "0x0a1": the sequence of its digits <<0, 10, 1>>       *)
(*     (int(x, 16), bytes.fromhex(x[2:]) and the node's parser read it);   *)
(*   - an address: a string, in lower case or in EIP-55 checksum case.     *)
(***************************************************************************)
EXTENDS Integers, Sequences, FiniteSets, TLC

VARIABLES
    TEST_NAME,           \* os.getenv("TEST_NAME")
    TEST_PARENT_FOLDER,  \* os.getenv("TEST_PARENT_FOLDER", "")
    corpus,              \* EF_TESTS_PARSED_DIR: file name -> parsed JSON content
    pc,                  \* the position of main()
    test,                \* main's local `test`
    anvil,               \* the external process: "none", "running", "terminated"
    terminations,        \* number of handler.anvil.terminate() calls
    handlers,            \* TRUE once wait() installed signal_handler
    node,                \* the live state of the reference environment
    calls,               \* every RPC request issued to the environment, in order
    fileReads,           \* every corpus file read, in order
    i,                   \* index of the transaction the replay loop is at
    tx_hash,             \* main's local `tx_hash`
    tx_hashes,           \* main's local `tx_hashes`
    output,              \* the `cast run` commands run and the clipboard text
    error                \* the exception that ended the run, or NoError

vars == <<TEST_NAME, TEST_PARENT_FOLDER, corpus, pc, test, anvil, terminations,
          handlers, node, calls, fileReads, i, tx_hash, tx_hashes, output, error>>

(***************************************************************************)
(* Bounds of the model.                                                    *)
(***************************************************************************)
\* The longest transaction list of a block.
MaxTxs == 2
\* The most leading zeros a hex string of a test vector carries.
MaxPad == 1
\* Every integer of the model is below 16^MaxDigits.
MaxDigits == 3
\* The most accounts of a postState.
MaxPostAccounts == 2

(***************************************************************************)
(* Program constants.                                                      *)
(***************************************************************************)
\* get_test_file: `len(TEST_NAME) > 255`.
MaxNameLength == 255
\* set_pre_state: the width of `:064x`.
HexWidth == 64

Null == "None"

(***************************************************************************)
(* Strings, hex strings and addresses.                                     *)
(***************************************************************************)
\* Python's `s in t` on strings.
IsSubstr(s, t) ==
    \E k \in 0..(Len(t) - Len(s)) : SubSeq(t, k + 1, k + Len(s)) = s

\* int(h, 16) of the digits h (the empty digit string does not occur in a
\* test vector; an empty storage value "0x" would raise).
RECURSIVE HexToInt(_)
HexToInt(h) ==
    IF h = <<>> THEN 0
    ELSE 16 * HexToInt(SubSeq(h, 1, Len(h) - 1)) + h[Len(h)]

\* 16^e, for the exponents an integer of the model needs.
RECURSIVE Pow16(_)
Pow16(e) == IF e = 0 THEN 1 ELSE 16 * Pow16(e - 1)

\* The k-th hex digit from the right of n (k = 0 is the last digit).
Digit(n, k) == (n \div Pow16(k)) % 16

\* The zeros that pad an integer below 16^MaxDigits to HexWidth digits.
LeadingZeros == [j \in 1..(HexWidth - MaxDigits) |-> 0]

\* n in HexWidth digits with its significant digits in reverse order.
Hex64_LeastSignificantFirst(n) ==
    LeadingZeros \o [j \in 1..MaxDigits |-> Digit(n, j - 1)]

\* f"{n:064x}": n in exactly HexWidth digits, most significant first.
Hex64(n) == LeadingZeros \o [j \in 1..MaxDigits |-> Digit(n, MaxDigits - j)]

\* bytes.fromhex(h): the bytes of an even number of digits.
FromHex(h) == [j \in 1..(Len(h) \div 2) |-> 16 * h[2 * j - 1] + h[2 * j]]

\* h with z more leading zeros.
Pad(h, z) == [j \in 1..z |-> 0] \o h

SENDER == "0xa94f5374fce5edbc8e2a8697c15331677e6ebf0b"
SENDER_CHECKSUM == "0xa94f5374Fce5edBC8E2a8697C15331677e6EbF0B"
RECIPIENT == "0x095e7baea6a6c7c4c2dfeb977efac326af552d87"
RECIPIENT_CHECKSUM == "0x095E7BAea6a6c7c4c2DfeB977eFac326aF552d87"
BEACON_ROOT_LOWER == "0x000f3df6d732807ef1319fb7b8bb8522d0beac02"
\* kakarot_scripts.constants.BEACON_ROOT_ADDRESS
BEACON_ROOT_ADDRESS == "0x000F3df6D732807Ef1319fB7B8bB8522d0Beac02"

\* Web3.to_checksum_address: the EIP-55 form of an address in either case.
to_checksum_address(a) ==
    CASE a \in {SENDER, SENDER_CHECKSUM} -> SENDER_CHECKSUM
      [] a \in {RECIPIENT, RECIPIENT_CHECKSUM} -> RECIPIENT_CHECKSUM
      [] a \in {BEACON_ROOT_LOWER, BEACON_ROOT_ADDRESS} -> BEACON_ROOT_ADDRESS

\* The accounts of the environment, by checksum address.
Accounts == {SENDER_CHECKSUM, RECIPIENT_CHECKSUM, BEACON_ROOT_ADDRESS}

(***************************************************************************)
(* Exceptions.                                                             *)
(***************************************************************************)
\* No exception `e` to be raised from.
NoCause ==
    [type |-> Null, field |-> Null, key |-> Null, actual |-> Null, expected |-> Null]

\* An exception: its class, its message (the fixed part of the f-string) and,
\* for check_post_state's error, the address and the exception `e` it is
\* raised from (`got {e}`).
Exc(type, msg) ==
    [type |-> type, msg |-> msg, address |-> Null, got |-> NoCause]

NoError == Exc(Null, Null)

ConnectionError == Exc("ConnectionError", "connection to the endpoint failed")

(***************************************************************************)
(* The test vector (TestVector, AccountState, Block of the data model).    *)
(***************************************************************************)
\* One account of `pre` or `postState`: hex strings as the JSON file has them;
\* storage is the JSON object's items, in file order.
Account(code, balance, nonce, storage) ==
    [code |-> code, balance |-> balance, nonce |-> nonce, storage |-> storage]

\* A transaction's chain_id: None, or an integer.
NoChainId == <<>>
ChainId(n) == <<n>>

\* A transaction of the block: a value transfer, with a nullable chain id.
Tx(nonce, value, chain_id) ==
    [nonce |-> nonce, sender |-> SENDER_CHECKSUM, to |-> RECIPIENT_CHECKSUM,
     value |-> value, chain_id |-> chain_id]

Header ==
    [timestamp |-> 1000, coinbase |-> <<42, 220>>, base_fee_per_gas |-> 10,
     gas_limit |-> 30000]

\* The "rlp" string of a block descriptor: the prefix and the payload that
\* rlp.decode reads. A well-formed payload is the encoding of a block.
EncodeBlock(transactions) ==
    [prefix |-> "0x",
     payload |-> <<"rlp", [header |-> Header, transactions |-> transactions]>>]

MalformedRlp == [prefix |-> "0x", payload |-> <<"garbage">>]

\* transaction.encode() and the environment's decoding of it.
EncodeTx(tx) == <<"raw", tx>>
DecodeTx(raw) == raw[2]

\* The transaction identifier the environment computes, as `.hex()` gives it.
HashHex(raw) == <<"hash", DecodeTx(raw).sender, DecodeTx(raw).nonce>>

(***************************************************************************)
(* The reference environment (anvil), as a stub that stores what the       *)
(* administrative calls set and executes value transfers.                  *)
(***************************************************************************)
\* The environment's state right after launch. The beacon root contract's
\* state is the environment's own. `refuses` are the administrative methods
\* the environment answers with a failure result (an error response, which
\* make_request returns to its caller and does not raise).
FreshNode ==
    [balance |-> [a \in Accounts |-> 0],
     nonce |-> [a \in Accounts |-> IF a = BEACON_ROOT_ADDRESS THEN 1 ELSE 0],
     code |-> [a \in Accounts |-> IF a = BEACON_ROOT_ADDRESS THEN <<51>> ELSE <<>>],
     storage |-> [a \in Accounts |-> <<>>],
     chainId |-> 31337,
     coinbase |-> <<>>,
     baseFee |-> 0,
     gasLimit |-> 0,
     refuses |-> {}]

\* A slot of an account's storage: absent keys are zero. The storage is a
\* function from the written slot numbers to their values.
SlotOf(storage, k) == IF k \in DOMAIN storage THEN storage[k] ELSE 0

StoreSlot(storage, k, v) ==
    [s \in (DOMAIN storage) \cup {k} |-> IF s = k THEN v ELSE storage[s]]

\* One RPC request: the method and its parameters.
Request(method, params) == [method |-> method, params |-> params]

\* The environment's handling of an administrative request: a refused one
\* changes nothing.
NodeApply(nd, req) ==
    LET p == req.params IN
    IF req.method \in nd.refuses THEN nd ELSE
    CASE req.method = "anvil_setCode" ->
           [nd EXCEPT !.code[to_checksum_address(p[1])] = FromHex(p[2])]
      [] req.method = "anvil_setBalance" ->
           [nd EXCEPT !.balance[to_checksum_address(p[1])] = HexToInt(p[2])]
      [] req.method = "anvil_setNonce" ->
           [nd EXCEPT !.nonce[to_checksum_address(p[1])] = HexToInt(p[2])]
      [] req.method = "anvil_setStorageAt" ->
           [nd EXCEPT !.storage[to_checksum_address(p[1])] =
                StoreSlot(@, HexToInt(p[2]), HexToInt(p[3]))]
      [] req.method = "anvil_setChainId" -> [nd EXCEPT !.chainId = p[1]]
      [] req.method = "anvil_setCoinbase" -> [nd EXCEPT !.coinbase = FromHex(p[1])]
      [] req.method = "anvil_setNextBlockBaseFeePerGas" ->
           [nd EXCEPT !.baseFee = p[1]]
      [] req.method = "evm_setBlockGasLimit" -> [nd EXCEPT !.gasLimit = p[1]]

\* Whether the environment accepts a raw transaction: the sender can pay.
NodeAccepts(nd, raw) == nd.balance[DecodeTx(raw).sender] >= DecodeTx(raw).value

\* The environment's execution of an accepted transaction.
NodeExecute(nd, raw) ==
    LET tx == DecodeTx(raw) IN
    [nd EXCEPT !.balance = [a \in Accounts |->
                   nd.balance[a] - (IF a = tx.sender THEN tx.value ELSE 0)
                                 + (IF a = tx.to THEN tx.value ELSE 0)],
               !.nonce[tx.sender] = @ + 1]

\* The record of one request in `calls`: ok is FALSE when the request raised.
Call(req, ok) == [method |-> req.method, params |-> req.params, ok |-> ok]

\* The requests issued one after the other with the one that raises skipped
\* over: the sequence goes on after it.
RECURSIVE MakeRequests_GoesOn(_, _, _, _)
MakeRequests_GoesOn(nd, reqs, k, failAt) ==
    IF k > Len(reqs) THEN [node |-> nd, calls |-> <<>>, raised |-> FALSE]
    ELSE LET rest == MakeRequests_GoesOn(IF k = failAt THEN nd ELSE NodeApply(nd, reqs[k]),
                                         reqs, k + 1, failAt)
         IN  [rest EXCEPT !.calls = <<Call(reqs[k], k # failAt)>> \o @]

\* The requests issued one after the other with the result of each inspected:
\* a failure result raises.
RECURSIVE MakeRequests_ChecksResult(_, _, _, _)
MakeRequests_ChecksResult(nd, reqs, k, failAt) ==
    IF k > Len(reqs) THEN [node |-> nd, calls |-> <<>>, raised |-> FALSE]
    ELSE IF k = failAt
         THEN [node |-> nd, calls |-> <<Call(reqs[k], FALSE)>>, raised |-> TRUE]
         ELSE IF reqs[k].method \in nd.refuses
         THEN [node |-> nd, calls |-> <<Call(reqs[k], TRUE)>>, raised |-> TRUE]
         ELSE LET rest == MakeRequests_ChecksResult(NodeApply(nd, reqs[k]), reqs,
                                                    k + 1, failAt)
              IN  [rest EXCEPT !.calls = <<Call(reqs[k], TRUE)>> \o @]

\* Issue the requests reqs[from..] one after the other; the failAt-th request
\* (0: none) raises a connectivity error, which ends the sequence. Yields the
\* environment's state, the requests issued and whether one raised.
RECURSIVE MakeRequests(_, _, _, _)
MakeRequests(nd, reqs, k, failAt) ==
    IF k > Len(reqs) THEN [node |-> nd, calls |-> <<>>, raised |-> FALSE]
    ELSE IF k = failAt
         THEN [node |-> nd, calls |-> <<Call(reqs[k], FALSE)>>, raised |-> TRUE]
         ELSE LET rest == MakeRequests(NodeApply(nd, reqs[k]), reqs, k + 1, failAt)
              IN  [rest EXCEPT !.calls = <<Call(reqs[k], TRUE)>> \o @]

\* The environment's answer to a read query. eth_getStorageAt parses the
\* position and answers the slot's 32 bytes.
NodeRead(nd, req) ==
    LET p == req.params IN
    CASE req.method = "eth_getBalance" -> nd.balance[p[1]]
      [] req.method = "eth_getTransactionCount" -> nd.nonce[p[1]]
      [] req.method = "eth_getCode" -> nd.code[p[1]]
      [] req.method = "eth_getStorageAt" ->
           FromHex(Hex64(SlotOf(nd.storage[p[1]], HexToInt(p[2]))))

\* int.from_bytes(b, "big")
RECURSIVE IntFromBytes(_)
IntFromBytes(b) ==
    IF b = <<>> THEN 0
    ELSE 256 * IntFromBytes(SubSeq(b, 1, Len(b) - 1)) + b[Len(b)]

\* bytes.hex()
BytesHex(b) ==
    [j \in 1..(2 * Len(b)) |->
        IF j % 2 = 1 THEN b[(j + 1) \div 2] \div 16 ELSE b[j \div 2] % 16]

(***************************************************************************)
(* get_test_file                                                           *)
(***************************************************************************)
\* The list `tests`: os.listdir's names are distinct, so it is a set.
MatchingTests(listing, name, folder) ==
    {file_name \in listing : IsSubstr(name, file_name) /\ IsSubstr(folder, file_name)}

\* The length check with the limit itself refused.
NameTooLong_AtLimit(name) == Len(name) >= MaxNameLength

\* `len(TEST_NAME) > 255`
NameTooLong(name) == Len(name) > MaxNameLength

\* `len(tests) > 1`
SeveralTests(tests) == Cardinality(tests) > 1

\* `TEST_PARENT_FOLDER == ""`
NoParentFolder(folder) == folder = <<>>

\* The outcome of get_test_file: the exception it raises, or the file it reads
\* and the parsed content it returns.
get_test_file(dir, name, folder) ==
    LET tests == MatchingTests(DOMAIN dir, name, folder) IN
    IF Cardinality(tests) = 0
    THEN IF NameTooLong(name)
         THEN [exc |-> Exc("ValueError", "exceeds the maximum length of 255 characters"),
               read |-> <<>>, value |-> Null]
         ELSE [exc |-> Exc("ValueError", "not found: use the valid EF-Test name"),
               read |-> <<>>, value |-> Null]
    ELSE IF SeveralTests(tests)
    THEN IF NoParentFolder(folder)
         THEN [exc |-> Exc("ValueError", "is ambiguous, please set TEST_PARENT_FOLDER"),
               read |-> <<>>, value |-> Null]
         ELSE [exc |-> Exc("ValueError", "not found"),
               read |-> <<>>, value |-> Null]
    ELSE LET file == CHOOSE f \in tests : TRUE
         IN  [exc |-> NoError, read |-> <<file>>, value |-> dir[file]]

(***************************************************************************)
(* get_block                                                               *)
(***************************************************************************)
\* The outcome of get_block: data["blocks"][0]["rlp"] decoded, or the
\* exception that wraps whatever the lookup or the decoding raised.
get_block(data) ==
    IF data.blocks = <<>> \/ data.blocks[1].rlp.payload[1] # "rlp"
    THEN [exc |-> Exc("Exception", "Could not find block in test data"),
          block |-> [header |-> Header, transactions |-> <<>>]]
    ELSE [exc |-> NoError, block |-> data.blocks[1].rlp.payload[2]]

(***************************************************************************)
(* set_pre_state and set_block                                             *)
(***************************************************************************)
\* The requests of one iteration with the balance set before the code.
AccountRequests_BalanceFirst(address, account) ==
    <<Request("anvil_setBalance", <<address, account.balance>>),
      Request("anvil_setCode", <<address, account.code>>),
      Request("anvil_setNonce", <<address, account.nonce>>)>>
    \o [j \in 1..Len(account.storage) |->
          Request("anvil_setStorageAt",
                  <<address,
                    Hex64(HexToInt(account.storage[j][1])),
                    Hex64(HexToInt(account.storage[j][2]))>>)]

\* The requests of one iteration of set_pre_state's loop.
AccountRequests(address, account) ==
    <<Request("anvil_setCode", <<address, account.code>>),
      Request("anvil_setBalance", <<address, account.balance>>),
      Request("anvil_setNonce", <<address, account.nonce>>)>>
    \o [j \in 1..Len(account.storage) |->
          Request("anvil_setStorageAt",
                  <<address,
                    Hex64(HexToInt(account.storage[j][1])),
                    Hex64(HexToInt(account.storage[j][2]))>>)]

\* The requests of set_pre_state, in the order it issues them.
RECURSIVE PreStateRequests(_)
PreStateRequests(pre) ==
    IF pre = <<>> THEN <<>>
    ELSE AccountRequests(Head(pre)[1], Head(pre)[2]) \o PreStateRequests(Tail(pre))

\* set_pre_state with the failAt-th request raising (0: none).
set_pre_state(w3, data, failAt) ==
    MakeRequests(w3, PreStateRequests(data.pre), 1, failAt)

\* `len(block.transactions) > 0 and block.transactions[0].chain_id is not None`
SetsChainId(block) ==
    Len(block.transactions) > 0 /\ block.transactions[1].chain_id # NoChainId

\* The requests of set_block with the chain id taken from the block's last
\* transaction.
BlockRequests_LastChainId(block) ==
    LET txs == block.transactions IN
    (IF Len(txs) > 0 /\ txs[Len(txs)].chain_id # NoChainId
     THEN <<Request("anvil_setChainId", <<txs[Len(txs)].chain_id[1]>>)>>
     ELSE <<>>)
    \o <<Request("anvil_setCoinbase", <<BytesHex(block.header.coinbase)>>),
         Request("anvil_setNextBlockBaseFeePerGas", <<block.header.base_fee_per_gas>>),
         Request("evm_setBlockGasLimit", <<block.header.gas_limit>>)>>

\* The requests of set_block, in the order it issues them.
BlockRequests(block) ==
    (IF SetsChainId(block)
     THEN <<Request("anvil_setChainId", <<block.transactions[1].chain_id[1]>>)>>
     ELSE <<>>)
    \o <<Request("anvil_setCoinbase", <<BytesHex(block.header.coinbase)>>),
         Request("anvil_setNextBlockBaseFeePerGas", <<block.header.base_fee_per_gas>>),
         Request("evm_setBlockGasLimit", <<block.header.gas_limit>>)>>

\* set_block with the failAt-th request raising (0: none). main reaches it
\* only with a test whose block AnvilHandler.__init__ already decoded.
set_block(w3, data, failAt) ==
    MakeRequests(w3, BlockRequests(get_block(data).block), 1, failAt)

(***************************************************************************)
(* check_post_state                                                        *)
(***************************************************************************)
\* The AssertionError of a failed `assert`: its message names the field (and,
\* for storage, the key), the value read for the message and the expected one.
AssertionError(field, key, actual, expected) ==
    [type |-> "AssertionError", field |-> field, key |-> key,
     actual |-> actual, expected |-> expected]

\* The exception of a read query that failed, as the `except` clause sees it.
ReadError ==
    [type |-> "ConnectionError", field |-> Null, key |-> Null,
     actual |-> Null, expected |-> Null]

\* ValueError(f"Post state does not match for {address}, got {e}")
PostStateError(address, e) ==
    [type |-> "ValueError", msg |-> "Post state does not match",
     address |-> address, got |-> e]

\* The asserts of the `try` block without the one on the transaction count.
FieldChecks_WithoutNonce(address, account) ==
    <<[field |-> "balance", key |-> Null,
       req |-> Request("eth_getBalance", <<address>>),
       expected |-> HexToInt(account.balance)],
      [field |-> "code", key |-> Null,
       req |-> Request("eth_getCode", <<address>>),
       expected |-> FromHex(account.code)]>>
    \o [j \in 1..Len(account.storage) |->
          [field |-> "storage", key |-> account.storage[j][1],
           req |-> Request("eth_getStorageAt", <<address, account.storage[j][1]>>),
           expected |-> HexToInt(account.storage[j][2])]]

\* The asserts of the `try` block comparing the expected numbers as the
\* strings they are written as: a number written with leading zeros equals
\* no live value.
FieldChecks_ByStringForm(address, account) ==
    LET Written(h) == IF Len(h) > 1 /\ h[1] = 0 THEN -1 ELSE HexToInt(h) IN
    <<[field |-> "balance", key |-> Null,
       req |-> Request("eth_getBalance", <<address>>),
       expected |-> Written(account.balance)],
      [field |-> "nonce", key |-> Null,
       req |-> Request("eth_getTransactionCount", <<address>>),
       expected |-> Written(account.nonce)],
      [field |-> "code", key |-> Null,
       req |-> Request("eth_getCode", <<address>>),
       expected |-> FromHex(account.code)]>>
    \o [j \in 1..Len(account.storage) |->
          [field |-> "storage", key |-> account.storage[j][1],
           req |-> Request("eth_getStorageAt", <<address, account.storage[j][1]>>),
           expected |-> Written(account.storage[j][2])]]

\* The asserts of the `try` block with the storage slots 0 and 1 compared
\* whether postState names them or not: a slot it omits is expected empty.
FieldChecks_EveryLowSlot(address, account) ==
    LET Expected(n) ==
          IF \E s \in DOMAIN account.storage : HexToInt(account.storage[s][1]) = n
          THEN HexToInt(account.storage[
                 CHOOSE s \in DOMAIN account.storage :
                   HexToInt(account.storage[s][1]) = n][2])
          ELSE 0
    IN
    <<[field |-> "balance", key |-> Null,
       req |-> Request("eth_getBalance", <<address>>),
       expected |-> HexToInt(account.balance)],
      [field |-> "nonce", key |-> Null,
       req |-> Request("eth_getTransactionCount", <<address>>),
       expected |-> HexToInt(account.nonce)],
      [field |-> "code", key |-> Null,
       req |-> Request("eth_getCode", <<address>>),
       expected |-> FromHex(account.code)]>>
    \o [j \in 1..2 |->
          [field |-> "storage", key |-> <<j - 1>>,
           req |-> Request("eth_getStorageAt", <<address, <<j - 1>>>>),
           expected |-> Expected(j - 1)]]

\* The asserts of the `try` block for one account, in order: the read query,
\* and the expected value converted to what the read gives.
FieldChecks(address, account) ==
    <<[field |-> "balance", key |-> Null,
       req |-> Request("eth_getBalance", <<address>>),
       expected |-> HexToInt(account.balance)],
      [field |-> "nonce", key |-> Null,
       req |-> Request("eth_getTransactionCount", <<address>>),
       expected |-> HexToInt(account.nonce)],
      [field |-> "code", key |-> Null,
       req |-> Request("eth_getCode", <<address>>),
       expected |-> FromHex(account.code)]>>
    \o [j \in 1..Len(account.storage) |->
          [field |-> "storage", key |-> account.storage[j][1],
           req |-> Request("eth_getStorageAt", <<address, account.storage[j][1]>>),
           expected |-> HexToInt(account.storage[j][2])]]

\* The left-hand side of an assert: the read, converted for storage.
Actual(w3, check) ==
    IF check.field = "storage" THEN IntFromBytes(NodeRead(w3, check.req))
    ELSE NodeRead(w3, check.req)

\* The `try` block from its j-th assert on, n read queries having been issued
\* before it; the failAt-th read query of the whole verification raises
\* (0: none). A failed assert evaluates its message, which reads the field
\* again. Yields the queries issued and the exception raised (NoCause: none).
RECURSIVE RunChecks(_, _, _, _, _)
RunChecks(w3, checks, j, n, failAt) ==
    IF j > Len(checks) THEN [calls |-> <<>>, exc |-> NoCause]
    ELSE LET c == checks[j] IN
         IF n + 1 = failAt
         THEN [calls |-> <<Call(c.req, FALSE)>>, exc |-> ReadError]
         ELSE IF Actual(w3, c) = c.expected
         THEN LET rest == RunChecks(w3, checks, j + 1, n + 1, failAt)
              IN  [rest EXCEPT !.calls = <<Call(c.req, TRUE)>> \o @]
         ELSE IF n + 2 = failAt
         THEN [calls |-> <<Call(c.req, TRUE), Call(c.req, FALSE)>>, exc |-> ReadError]
         ELSE [calls |-> <<Call(c.req, TRUE), Call(c.req, TRUE)>>,
               exc |-> AssertionError(c.field, c.key, Actual(w3, c), c.expected)]

\* No address is skipped.
Skipped_Never(address) == FALSE

\* `address == Web3.to_checksum_address(BEACON_ROOT_ADDRESS)`
Skipped(address) == address = to_checksum_address(BEACON_ROOT_ADDRESS)

\* check_post_state's loop from the j-th item of postState on.
RECURSIVE CheckAccounts(_, _, _, _, _)
CheckAccounts(w3, postState, j, n, failAt) ==
    IF j > Len(postState) THEN [calls |-> <<>>, exc |-> NoError]
    ELSE LET address == to_checksum_address(postState[j][1]) IN
         IF Skipped(address)
         THEN CheckAccounts(w3, postState, j + 1, n, failAt)
         ELSE LET r == RunChecks(w3, FieldChecks(address, postState[j][2]), 1, n, failAt)
              IN  IF r.exc.type # Null
                  THEN [calls |-> r.calls, exc |-> PostStateError(address, r.exc)]
                  ELSE LET rest == CheckAccounts(w3, postState, j + 1,
                                                 n + Len(r.calls), failAt)
                       IN  [rest EXCEPT !.calls = r.calls \o @]

\* check_post_state with the failAt-th read query raising (0: none): the
\* queries it issues and the exception it raises (NoError: it returns).
check_post_state(w3, data, failAt) == CheckAccounts(w3, data.postState, 1, 0, failAt)

(***************************************************************************)
(* The inputs: the corpus directory and the operator's configuration.      *)
(***************************************************************************)
\* The file names of the corpus (folder and test name, sanitized).
FileXA == <<"x", "_", "a">>
FileYA == <<"y", "_", "a">>
FileXAB == <<"x", "_", "a", "b">>

\* A name of n characters.
LongName(n) == [j \in 1..n |-> "a"]

TestNames ==
    {<<"a">>, <<"a", "b">>, <<"c">>, LongName(MaxNameLength), LongName(MaxNameLength + 1)}

ParentFolders == {<<>>, <<"x">>, <<"y">>}

\* The transactions a block is made of: (value, chain id).
TxKinds == {<<1, NoChainId>>, <<1, ChainId(1)>>, <<0, ChainId(2)>>}

\* The transaction lists of at most MaxTxs transactions.
TxLists ==
    {[j \in 1..Len(kinds) |-> Tx(j - 1, kinds[j][1], kinds[j][2])] :
        kinds \in UNION {[1..m -> TxKinds] : m \in 0..MaxTxs}}

BlockLists ==
    {<<>>, <<[rlp |-> MalformedRlp]>>}
    \cup {<<[rlp |-> EncodeBlock(txs)]>> : txs \in TxLists}

SenderPre == Account(<<>>, <<2>>, <<0>>, <<>>)

\* The recipient's pre-state, its storage keys and values written with z
\* leading zeros.
RecipientPre(z) ==
    Account(<<6, 0, 0, 0>>, Pad(<<0>>, z), <<0>>,
            << <<Pad(<<0>>, z), Pad(<<1>>, z)>>, <<Pad(<<1>>, z), <<10>>>> >>)

FullPre(z) == << <<SENDER, SenderPre>>, <<RECIPIENT, RecipientPre(z)>> >>

PreStates ==
    {<<>>, << <<SENDER, SenderPre>> >>} \cup {FullPre(z) : z \in 0..MaxPad}

\* Expected accounts of postState.
SenderExpected ==
    {Account(<<>>, b, n, <<>>) :
        b \in {<<1>>, <<2>>} \cup {Pad(<<1>>, z) : z \in 1..MaxPad},
        n \in {<<1>>, <<0>>}}

RecipientStorages ==
    {<< <<<<0>>, <<1>>>>, <<<<1>>, <<10>>>> >>,
     << <<<<0>>, <<0>>>>, <<<<1>>, <<11>>>> >>}
    \cup {<< <<Pad(<<1>>, z), Pad(<<10>>, z)>> >> : z \in 1..MaxPad}

RecipientExpected ==
    {Account(c, <<1>>, <<0>>, s) : c \in {<<6, 0, 0, 0>>, <<>>}, s \in RecipientStorages}

BeaconExpected ==
    {Account(<<3, 3>>, <<0>>, <<1>>, <<>>), Account(<<>>, <<1>>, <<0>>, << <<<<0>>, <<1>>>> >>)}

PostEntries ==
    {<<SENDER, acc>> : acc \in SenderExpected}
    \cup {<<RECIPIENT, acc>> : acc \in RecipientExpected}
    \cup {<<BEACON_ROOT_LOWER, acc>> : acc \in BeaconExpected}

\* postState: a JSON object, so no address twice; any order of its keys.
PostStates ==
    {post \in UNION {[1..n -> PostEntries] : n \in 0..MaxPostAccounts} :
        \A j, k \in DOMAIN post : j # k => post[j][1] # post[k][1]}

TestVector(pre, blocks, postState) ==
    [pre |-> pre, blocks |-> blocks, postState |-> postState]

\* The sender's account after two transfers of 1.
SenderAfterTwo == Account(<<>>, <<0>>, <<2>>, <<>>)

\* The test vectors: every pre-state with every block list, under the empty
\* postState and under one that expects two transfers; and every postState
\* after one transfer of 1 from the sender to the recipient.
Vectors ==
    {TestVector(pre, blocks, post) :
        pre \in PreStates, blocks \in BlockLists,
        post \in {<<>>, << <<SENDER, SenderAfterTwo>> >>}}
    \cup {TestVector(FullPre(0), <<[rlp |-> EncodeBlock(<<Tx(0, 1, ChainId(1))>>)]>>, post) :
            post \in PostStates}

\* A run's inputs: the corpus directory and the operator's configuration.
Inputs(dir, name, folder, refuses) ==
    [corpus |-> dir, name |-> name, folder |-> folder, refuses |-> refuses]

\* The sets of administrative methods an environment refuses.
Refusals ==
    {{"anvil_setNonce"}, {"anvil_setChainId"}, {"anvil_setBalance", "evm_setBlockGasLimit"}}

\* The test vectors run against an environment that refuses some method.
RefusedVectors ==
    {TestVector(FullPre(0), <<[rlp |-> EncodeBlock(<<Tx(0, 1, ChainId(1))>>)]>>, <<>>),
     TestVector(<< <<SENDER, SenderPre>> >>,
                <<[rlp |-> EncodeBlock(<<Tx(0, 1, ChainId(1)), Tx(1, 0, ChainId(2))>>)]>>,
                << <<SENDER, Account(<<>>, <<1>>, <<2>>, <<>>)>> >>)}

\* The inputs: a directory of three files and the empty directory under every
\* configuration, and each test vector alone in a directory under a
\* configuration that selects it, against an environment that refuses
\* nothing and, for some vectors, against one that refuses some methods.
AllInputs ==
    {Inputs(dir, name, folder, {}) :
        dir \in {[f \in {FileXA, FileYA, FileXAB} |->
                    IF f = FileXA THEN TestVector(<<>>, <<>>, <<>>)
                    ELSE IF f = FileYA
                         THEN TestVector(<<>>, <<[rlp |-> MalformedRlp]>>, <<>>)
                         ELSE TestVector(<<>>, <<[rlp |-> EncodeBlock(<<>>)]>>, <<>>)],
                  [f \in {} |-> Null]},
        name \in TestNames, folder \in ParentFolders}
    \cup {Inputs([f \in {FileYA} |-> v], <<"a">>, <<"y">>, {}) : v \in Vectors}
    \cup {Inputs([f \in {FileYA} |-> v], <<"a">>, <<"y">>, refuses) :
            v \in RefusedVectors, refuses \in Refusals}

(***************************************************************************)
(* main                                                                    *)
(***************************************************************************)
Init ==
    /\ pc = "get_test_file"
    /\ test = Null
    /\ anvil = "none"
    /\ terminations = 0
    /\ handlers = FALSE
    /\ \E in \in AllInputs :
         /\ TEST_NAME = in.name
         /\ TEST_PARENT_FOLDER = in.folder
         /\ corpus = in.corpus
         /\ node = [FreshNode EXCEPT !.refuses = in.refuses]
    /\ calls = <<>>
    /\ fileReads = <<>>
    /\ i = 0
    /\ tx_hash = Null
    /\ tx_hashes = <<>>
    /\ output = <<>>
    /\ error = NoError

\* An exception leaves main (or the interpreter) with no handler left.
Raise(e) ==
    /\ pc' = "raised"
    /\ error' = e

\* An exception inside main's `try`: control goes to the `except` clause.
RaiseInTry(e) ==
    /\ pc' = "except"
    /\ error' = e

\* line 160: test = get_test_file()
GetTestFile ==
    /\ pc = "get_test_file"
    /\ LET r == get_test_file(corpus, TEST_NAME, TEST_PARENT_FOLDER) IN
       /\ fileReads' = fileReads \o r.read
       /\ IF r.exc.type # Null
          THEN Raise(r.exc) /\ test' = test
          ELSE pc' = "AnvilHandler" /\ test' = r.value /\ error' = error
    /\ UNCHANGED <<TEST_NAME, TEST_PARENT_FOLDER, corpus, anvil, terminations,
                   handlers, node, calls, i, tx_hash, tx_hashes, output>>

\* AnvilHandler.__init__ with Popen called before the block is decoded.
AnvilHandlerInit_LaunchesFirst ==
    /\ pc = "AnvilHandler"
    /\ \E popen \in BOOLEAN :
         /\ anvil' = IF popen THEN "running" ELSE anvil
         /\ IF get_block(test).exc.type # Null \/ ~popen
            THEN Raise(Exc("Exception", "Could not launch anvil"))
            ELSE pc' = "connect_anvil" /\ error' = error
    /\ UNCHANGED <<TEST_NAME, TEST_PARENT_FOLDER, corpus, test, terminations,
                   handlers, node, calls, fileReads, i, tx_hash, tx_hashes, output>>

\* line 162: handler = AnvilHandler(test); popen is whether Popen started the
\* process.
AnvilHandlerInit ==
    /\ pc = "AnvilHandler"
    /\ \E popen \in BOOLEAN :
         IF get_block(test).exc.type # Null \/ ~popen
         THEN Raise(Exc("Exception", "Could not launch anvil")) /\ anvil' = anvil
         ELSE pc' = "connect_anvil" /\ anvil' = "running" /\ error' = error
    /\ UNCHANGED <<TEST_NAME, TEST_PARENT_FOLDER, corpus, test, terminations,
                   handlers, node, calls, fileReads, i, tx_hash, tx_hashes, output>>

\* line 164: provider = connect_anvil()
ConnectAnvil ==
    /\ pc = "connect_anvil"
    /\ \E is_connected \in BOOLEAN :
         IF is_connected
         THEN pc' = "set_pre_state" /\ error' = error
         ELSE RaiseInTry(Exc("Exception", "Not connected to anvil endpoint"))
    /\ UNCHANGED <<TEST_NAME, TEST_PARENT_FOLDER, corpus, test, anvil, terminations,
                   handlers, node, calls, fileReads, i, tx_hash, tx_hashes, output>>

\* line 166: set_pre_state(provider, test)
SetPreState ==
    /\ pc = "set_pre_state"
    /\ \E failAt \in 0..Len(PreStateRequests(test.pre)) :
         LET r == set_pre_state(node, test, failAt) IN
         /\ node' = r.node
         /\ calls' = calls \o r.calls
         /\ IF r.raised THEN RaiseInTry(ConnectionError)
            ELSE pc' = "set_block" /\ error' = error
    /\ UNCHANGED <<TEST_NAME, TEST_PARENT_FOLDER, corpus, test, anvil, terminations,
                   handlers, fileReads, i, tx_hash, tx_hashes, output>>

\* line 167: set_block(provider, test)
SetBlock ==
    /\ pc = "set_block"
    /\ \E failAt \in 0..Len(BlockRequests(get_block(test).block)) :
         LET r == set_block(node, test, failAt) IN
         /\ node' = r.node
         /\ calls' = calls \o r.calls
         /\ IF r.raised THEN RaiseInTry(ConnectionError)
            ELSE pc' = "get_block" /\ error' = error
    /\ UNCHANGED <<TEST_NAME, TEST_PARENT_FOLDER, corpus, test, anvil, terminations,
                   handlers, fileReads, i, tx_hash, tx_hashes, output>>

\* The empty check never taken.
NoTransactions_Never(block) == FALSE

\* `len(block.transactions) == 0`
NoTransactions(block) == Len(block.transactions) = 0

\* The loop left after its first iteration.
AfterIteration_LeavesEarly(k) == "check_post_state"

\* Where the loop of line 174 goes after k iterations: to the next
\* transaction, or past the loop.
AfterIteration(k) ==
    IF k < Len(get_block(test).block.transactions)
    THEN "send_transaction" ELSE "check_post_state"

\* lines 170-173: block = get_block(test); tx_hashes = []; the empty check.
ReplayStart ==
    /\ pc = "get_block"
    /\ tx_hashes' = <<>>
    /\ IF NoTransactions(get_block(test).block)
       THEN RaiseInTry(Exc("ValueError", "Could not find transaction in test data"))
            /\ i' = i
       ELSE pc' = AfterIteration(0) /\ i' = 1 /\ error' = error
    /\ UNCHANGED <<TEST_NAME, TEST_PARENT_FOLDER, corpus, test, anvil, terminations,
                   handlers, node, calls, fileReads, tx_hash, output>>

\* The loop walking the list from its end.
CurrentTx_Reversed ==
    LET txs == get_block(test).block.transactions IN txs[Len(txs) - i + 1]

\* The transaction the loop of line 174 is at.
CurrentTx == get_block(test).block.transactions[i]

\* line 175: tx_hash = send_transaction(provider, tx). The request raises when
\* the endpoint cannot be reached or when the environment rejects the
\* transaction; an accepted transaction is executed by the environment.
SendTransaction ==
    /\ pc = "send_transaction"
    /\ LET raw == EncodeTx(CurrentTx)
           req == Request("eth_sendRawTransaction", <<raw>>) IN
       \E reachable \in BOOLEAN :
         IF ~reachable
         THEN /\ calls' = Append(calls, Call(req, FALSE))
              /\ RaiseInTry(ConnectionError)
              /\ UNCHANGED <<node, tx_hash>>
         ELSE IF ~NodeAccepts(node, raw)
         THEN /\ calls' = Append(calls, Call(req, FALSE))
              /\ RaiseInTry(Exc("Web3RPCError", "the environment rejected the transaction"))
              /\ UNCHANGED <<node, tx_hash>>
         ELSE /\ calls' = Append(calls, Call(req, TRUE))
              /\ node' = NodeExecute(node, raw)
              /\ tx_hash' = HashHex(raw)
              /\ pc' = "wait_for_transaction_receipt"
              /\ error' = error
    /\ UNCHANGED <<TEST_NAME, TEST_PARENT_FOLDER, corpus, test, anvil, terminations,
                   handlers, fileReads, i, tx_hashes, output>>

\* The wait for the receipt with the identifier recorded before the wait.
WaitForReceipt_RecordsFirst ==
    /\ pc = "wait_for_transaction_receipt"
    /\ LET req == Request("eth_getTransactionReceipt", <<tx_hash>>) IN
       \E receipt \in BOOLEAN :
         /\ tx_hashes' = Append(tx_hashes, tx_hash)
         /\ IF receipt
            THEN /\ calls' = Append(calls, Call(req, TRUE))
                 /\ i' = i + 1
                 /\ pc' = AfterIteration(i)
                 /\ error' = error
            ELSE /\ calls' = Append(calls, Call(req, FALSE))
                 /\ RaiseInTry(Exc("TimeExhausted", "the transaction is not in the chain"))
                 /\ i' = i
    /\ UNCHANGED <<TEST_NAME, TEST_PARENT_FOLDER, corpus, test, anvil, terminations,
                   handlers, node, fileReads, tx_hash, output>>

\* lines 176-177: provider.eth.wait_for_transaction_receipt(tx_hash);
\* tx_hashes.append(tx_hash). The wait raises when the receipt does not come.
WaitForReceipt ==
    /\ pc = "wait_for_transaction_receipt"
    /\ LET req == Request("eth_getTransactionReceipt", <<tx_hash>>) IN
       \E receipt \in BOOLEAN :
         IF receipt
         THEN /\ calls' = Append(calls, Call(req, TRUE))
              /\ tx_hashes' = Append(tx_hashes, tx_hash)
              /\ i' = i + 1
              /\ pc' = AfterIteration(i)
              /\ error' = error
         ELSE /\ calls' = Append(calls, Call(req, FALSE))
              /\ RaiseInTry(Exc("TimeExhausted", "the transaction is not in the chain"))
              /\ UNCHANGED <<tx_hashes, i>>
    /\ UNCHANGED <<TEST_NAME, TEST_PARENT_FOLDER, corpus, test, anvil, terminations,
                   handlers, node, fileReads, tx_hash, output>>

\* line 180: check_post_state(provider, test)
CheckPostState ==
    /\ pc = "check_post_state"
    /\ \E failAt \in 0..Len(check_post_state(node, test, 0).calls) :
         LET r == check_post_state(node, test, failAt) IN
         /\ calls' = calls \o r.calls
         /\ IF r.exc.type # Null THEN RaiseInTry(r.exc)
            ELSE pc' = "diagnostics" /\ error' = error
    /\ UNCHANGED <<TEST_NAME, TEST_PARENT_FOLDER, corpus, test, anvil, terminations,
                   handlers, node, fileReads, i, tx_hash, tx_hashes, output>>

\* lines 182-191: `cast run` for every recorded identifier, then the first
\* command is copied to the clipboard, which raises when there is none.
Diagnostics ==
    /\ pc = "diagnostics"
    /\ LET ran == [j \in 1..Len(tx_hashes) |-> <<"cast run", tx_hashes[j]>>] IN
       \E clipboard \in BOOLEAN :
         IF tx_hashes = <<>>
         THEN /\ output' = output \o ran
              /\ RaiseInTry(Exc("IndexError", "list index out of range"))
         ELSE IF clipboard
         THEN /\ output' = output \o ran \o <<<<"copy", tx_hashes[1]>>>>
              /\ pc' = "wait"
              /\ error' = error
         ELSE /\ output' = output \o ran
              /\ RaiseInTry(Exc("PyperclipException", "no copy/paste mechanism"))
    /\ UNCHANGED <<TEST_NAME, TEST_PARENT_FOLDER, corpus, test, anvil, terminations,
                   handlers, node, calls, fileReads, i, tx_hash, tx_hashes>>

\* The `except` clause without the call that terminates anvil.
Terminate_Nothing == UNCHANGED <<anvil, terminations>>

\* handler.anvil.terminate()
Terminate ==
    /\ anvil' = "terminated"
    /\ terminations' = terminations + 1

\* lines 193-195: except Exception as e: handler.anvil.terminate(); raise e
Except ==
    /\ pc = "except"
    /\ Terminate
    /\ Raise(error)
    /\ UNCHANGED <<TEST_NAME, TEST_PARENT_FOLDER, corpus, test, handlers, node,
                   calls, fileReads, i, tx_hash, tx_hashes, output>>

\* line 198, lines 50-55: handler.wait() installs signal_handler for SIGTERM
\* and SIGINT and sleeps for ever.
Wait ==
    /\ pc = "wait"
    /\ handlers' = TRUE
    /\ pc' = "waiting"
    /\ UNCHANGED <<TEST_NAME, TEST_PARENT_FOLDER, corpus, test, anvil, terminations,
                   node, calls, fileReads, i, tx_hash, tx_hashes, output, error>>

\* The run has ended: an exception left main, exit(0) ran, or the process was
\* killed.
Ended == pc \in {"raised", "exited", "killed"}

\* lines 57-60: signal_handler terminates anvil and exits.
SignalHandler ==
    /\ ~Ended
    /\ handlers
    /\ Terminate
    /\ pc' = "exited"
    /\ error' = Exc("SystemExit", "0")
    /\ UNCHANGED <<TEST_NAME, TEST_PARENT_FOLDER, corpus, test, handlers, node,
                   calls, fileReads, i, tx_hash, tx_hashes, output>>

\* SIGINT before wait() installed a handler: Python raises KeyboardInterrupt
\* in main. It is a BaseException, which `except Exception` does not catch.
KeyboardInterrupt ==
    /\ ~Ended
    /\ ~handlers
    /\ Raise(Exc("KeyboardInterrupt", "SIGINT"))
    /\ UNCHANGED <<TEST_NAME, TEST_PARENT_FOLDER, corpus, test, anvil, terminations,
                   handlers, node, calls, fileReads, i, tx_hash, tx_hashes, output>>

\* SIGTERM before wait() installed a handler: the default action ends the
\* Python process at once.
Sigterm ==
    /\ ~Ended
    /\ ~handlers
    /\ pc' = "killed"
    /\ UNCHANGED <<TEST_NAME, TEST_PARENT_FOLDER, corpus, test, anvil, terminations,
                   handlers, node, calls, fileReads, i, tx_hash, tx_hashes, output,
                   error>>

Next ==
    \/ GetTestFile
    \/ AnvilHandlerInit
    \/ ConnectAnvil
    \/ SetPreState
    \/ SetBlock
    \/ ReplayStart
    \/ SendTransaction
    \/ WaitForReceipt
    \/ CheckPostState
    \/ Diagnostics
    \/ Except
    \/ Wait
    \/ SignalHandler
    \/ KeyboardInterrupt
    \/ Sigterm

Spec == Init /\ [][Next]_vars

(***************************************************************************)
(* What the environment observes: the requests of `calls`, by kind.        *)
(***************************************************************************)
AdminMethods ==
    {"anvil_setCode", "anvil_setBalance", "anvil_setNonce", "anvil_setStorageAt",
     "anvil_setChainId", "anvil_setCoinbase", "anvil_setNextBlockBaseFeePerGas",
     "evm_setBlockGasLimit"}

ReadMethods ==
    {"eth_getBalance", "eth_getTransactionCount", "eth_getCode", "eth_getStorageAt"}

IsAdmin(c) == c.method \in AdminMethods
IsSubmit(c) == c.method = "eth_sendRawTransaction"
IsConfirm(c) == c.method = "eth_getTransactionReceipt"
IsReplay(c) == IsSubmit(c) \/ IsConfirm(c)
IsRead(c) == c.method \in ReadMethods

\* The call c is the request req.
IsRequest(c, req) == c.method = req.method /\ c.params = req.params

\* The decoded block of the loaded test, and its transactions.
TheBlock == get_block(test).block
TheTxs == TheBlock.transactions

\* Every request of seeding and of the block context, in the order issued.
SeedingRequests == PreStateRequests(test.pre) \o BlockRequests(TheBlock)

(***************************************************************************)
(* C1: the three phases never overlap or reorder. Whenever a transaction   *)
(* has been submitted, every set_pre_state and set_block request has been  *)
(* issued (and answered) before it and none is issued after it; whenever   *)
(* a post-state read query has been issued, every transaction of the block *)
(* has been submitted and confirmed before it.                             *)
(***************************************************************************)
C1_PhasesInOrder ==
    calls # <<>> =>
      LET seeding == SeedingRequests
          txs == TheTxs
          n == Len(seeding)
      IN
      /\ \A k \in DOMAIN calls : IsAdmin(calls[k]) => k <= n
      /\ \A k \in DOMAIN calls : IsReplay(calls[k]) => k > n
      /\ (\E k \in DOMAIN calls : IsReplay(calls[k])) =>
           \A j \in 1..n : IsRequest(calls[j], seeding[j]) /\ calls[j].ok
      /\ \A k \in DOMAIN calls : IsRead(calls[k]) => k > n + 2 * Len(txs)
      /\ (\E k \in DOMAIN calls : IsRead(calls[k])) =>
           \A t \in 1..Len(txs) :
             /\ IsSubmit(calls[n + 2 * t - 1]) /\ calls[n + 2 * t - 1].ok
             /\ calls[n + 2 * t - 1].params = <<EncodeTx(txs[t])>>
             /\ IsConfirm(calls[n + 2 * t]) /\ calls[n + 2 * t].ok

\* A run that seeded an account with storage, replayed two transactions and
\* read the post-state.
C1_Witness ==
    /\ pc = "diagnostics"
    /\ Len(test.pre) = 2
    /\ Len(TheTxs) >= 2
    /\ \E k \in DOMAIN calls : IsRead(calls[k])

(***************************************************************************)
(* C2: the replay loop submits T1..Tn in list order, each once, and        *)
(* interleaves strictly: the requests of the replay are submit(T1),        *)
(* confirm(T1), submit(T2), confirm(T2), ... with every request but the    *)
(* last answered, and all 2n of them answered once the loop is left.       *)
(***************************************************************************)
C2_ReplayInOrder ==
    calls # <<>> =>
      LET r == SelectSeq(calls, IsReplay)
          txs == TheTxs
      IN
      /\ Len(r) <= 2 * Len(txs)
      /\ \A k \in DOMAIN r :
           /\ k % 2 = 1 =>
                IsSubmit(r[k]) /\ r[k].params = <<EncodeTx(txs[(k + 1) \div 2])>>
           /\ k % 2 = 0 =>
                IsConfirm(r[k]) /\ r[k].params = <<HashHex(EncodeTx(txs[k \div 2]))>>
           /\ k < Len(r) => r[k].ok
      /\ pc \in {"check_post_state", "diagnostics", "wait", "waiting"} =>
           Len(r) = 2 * Len(txs) /\ r[Len(r)].ok

\* The loop was left after two different transactions.
C2_Witness ==
    /\ pc = "check_post_state"
    /\ Len(TheTxs) >= 2
    /\ TheTxs[1].value # TheTxs[2].value

(***************************************************************************)
(* The verification, seen from outside: the state the environment holds,   *)
(* and the run's position right after check_post_state.                    *)
(***************************************************************************)
\* The environment holds, for an account, what the postState entry expects:
\* balance, transaction count, code and every storage slot the entry names.
AccountMatches(nd, address, account) ==
    /\ nd.balance[address] = HexToInt(account.balance)
    /\ nd.nonce[address] = HexToInt(account.nonce)
    /\ nd.code[address] = FromHex(account.code)
    /\ \A s \in DOMAIN account.storage :
         SlotOf(nd.storage[address], HexToInt(account.storage[s][1]))
           = HexToInt(account.storage[s][2])

\* Every address of postState other than the beacon root matches.
AllMatch(nd, postState) ==
    \A j \in DOMAIN postState :
      LET address == to_checksum_address(postState[j][1]) IN
      address # BEACON_ROOT_ADDRESS => AccountMatches(nd, address, postState[j][2])

\* check_post_state has just returned.
Verified == pc = "diagnostics"

\* check_post_state has just raised.
VerificationFailed == pc = "except" /\ error.msg = "Post state does not match"

\* The read queries issued so far.
Reads == SelectSeq(calls, IsRead)

(***************************************************************************)
(* C3 as stated: check_post_state returns without error if and only if,    *)
(* for every address of postState other than the beacon root, the live     *)
(* balance, transaction count, code and every named storage slot equal the *)
(* expected values. Violated: a read query that raises fails a verification*)
(* whose values all match.                                                 *)
(***************************************************************************)
C3_SucceedsIffAllMatch ==
    /\ Verified => AllMatch(node, test.postState)
    /\ VerificationFailed => ~AllMatch(node, test.postState)

(***************************************************************************)
(* C3, amended: check_post_state returns without error if and only if      *)
(* every read query it issues is answered and, for every address of        *)
(* postState other than the beacon root, the live balance, transaction     *)
(* count, code and every named storage slot equal the expected values.     *)
(***************************************************************************)
C3_SucceedsIffAnsweredAndAllMatch ==
    /\ Verified =>
         /\ AllMatch(node, test.postState)
         /\ \A k \in DOMAIN calls : IsRead(calls[k]) => calls[k].ok
    /\ VerificationFailed =>
         \/ ~AllMatch(node, test.postState)
         \/ \E k \in DOMAIN calls : IsRead(calls[k]) /\ ~calls[k].ok

\* A verification that returned after comparing two accounts, one of them
\* with a storage slot written with leading zeros.
C3_Witness ==
    /\ Verified
    /\ Len(test.postState) = 2
    /\ \A j \in DOMAIN test.postState : test.postState[j][1] # BEACON_ROOT_LOWER
    /\ \E j \in DOMAIN test.postState :
         /\ Len(test.postState[j][2].storage) > 0
         /\ Len(test.postState[j][2].storage[1][1]) > 1

\* The asserts of the verification in the order the code makes them: for
\* every address but the beacon root, in postState order, balance, nonce,
\* code, storage slots.
RECURSIVE ChecksInOrder(_, _)
ChecksInOrder(postState, j) ==
    IF j > Len(postState) THEN <<>>
    ELSE LET address == to_checksum_address(postState[j][1])
             checks == FieldChecks(address, postState[j][2])
         IN  (IF address = BEACON_ROOT_ADDRESS THEN <<>>
              ELSE [k \in DOMAIN checks |->
                      [address |-> address, field |-> checks[k].field,
                       key |-> checks[k].key, req |-> checks[k].req,
                       expected |-> checks[k].expected]])
             \o ChecksInOrder(postState, j + 1)

\* The positions of ChecksInOrder whose live value differs from the expected.
Mismatches(nd, checks) == {k \in DOMAIN checks : Actual(nd, checks[k]) # checks[k].expected}

(***************************************************************************)
(* C4: on the first mismatch found (accounts in postState order, fields in *)
(* the order balance, nonce, code, storage slots) the verification fails   *)
(* with an error that names that account's address and that field; nothing *)
(* else is read after the mismatch. Violated: the message of the failed    *)
(* assert reads the field again, and when that query raises the error      *)
(* names the address but not the field.                                    *)
(***************************************************************************)
C4_FirstMismatchReported ==
    pc = "except" /\ Reads # <<>> =>
      LET checks == ChecksInOrder(test.postState, 1)
          mism == Mismatches(node, checks)
      IN  mism # {} =>
            LET m == CHOOSE k \in mism : \A l \in mism : k <= l IN
            Len(Reads) >= m /\ Reads[m].ok =>
              /\ error.type = "ValueError"
              /\ error.address = checks[m].address
              /\ error.got.type = "AssertionError"
              /\ error.got.field = checks[m].field
              /\ error.got.key = checks[m].key
              /\ Len(Reads) <= m + 1
              /\ \A k \in (m + 1)..Len(Reads) : IsRequest(Reads[k], checks[m].req)

\* States the beacon root account can be in, in an environment.
BeaconStates ==
    {[balance |-> 0, nonce |-> 1, code |-> <<51>>, storage |-> <<>>],
     [balance |-> 1, nonce |-> 0, code |-> <<>>, storage |-> (0 :> 1)]}

\* The environment nd with the beacon root account in the state b.
WithBeacon(nd, b) ==
    [nd EXCEPT !.balance[BEACON_ROOT_ADDRESS] = b.balance,
               !.nonce[BEACON_ROOT_ADDRESS] = b.nonce,
               !.code[BEACON_ROOT_ADDRESS] = b.code,
               !.storage[BEACON_ROOT_ADDRESS] = b.storage]

\* The test vector with the beacon root's entry of postState, if it has one,
\* expecting the account acc.
WithBeaconEntry(data, acc) ==
    [data EXCEPT !.postState =
        [j \in DOMAIN @ |->
            IF to_checksum_address(@[j][1]) = BEACON_ROOT_ADDRESS
            THEN <<@[j][1], acc>> ELSE @[j]]]

\* The position of the read query that raised in this run (0: none did).
FailedRead == IF Reads # <<>> /\ ~Reads[Len(Reads)].ok THEN Len(Reads) ELSE 0

(***************************************************************************)
(* C5: the beacon root address is never compared. No read query is issued  *)
(* for it, and the outcome of the verification (the queries issued and the *)
(* error raised, if any) is the one check_post_state gives in every        *)
(* environment that differs in the live state of that address only, and    *)
(* for every postState that differs in the entry of that address only.     *)
(***************************************************************************)
C5_BeaconNeverCompared ==
    /\ \A k \in DOMAIN calls :
         IsRead(calls[k]) => calls[k].params[1] # BEACON_ROOT_ADDRESS
    /\ Verified \/ VerificationFailed =>
         \A b \in BeaconStates, acc \in BeaconExpected :
           LET r == check_post_state(WithBeacon(node, b), WithBeaconEntry(test, acc),
                                     FailedRead)
           IN  /\ r.calls = Reads
               /\ (r.exc.type = Null) = Verified
               /\ VerificationFailed =>
                    /\ r.exc.address = error.address
                    /\ r.exc.got.type = error.got.type
                    /\ r.exc.got.field = error.got.field

\* A verification that returned although postState expects of the beacon
\* root, next to another account, a state the environment does not hold.
C5_Witness ==
    /\ Verified
    /\ Len(test.postState) = 2
    /\ \E j \in DOMAIN test.postState :
         /\ test.postState[j][1] = BEACON_ROOT_LOWER
         /\ ~AccountMatches(node, BEACON_ROOT_ADDRESS, test.postState[j][2])

\* A stage of main's `try` failed and the error has left main.
StageFailed == pc = "raised" /\ anvil # "none" /\ error.type # "KeyboardInterrupt"

(***************************************************************************)
(* C6: when anvil has been launched and a later stage fails (connection,   *)
(* seeding, block context, empty block, submission, confirmation,          *)
(* verification, diagnostic output), anvil is terminated before the error  *)
(* propagates to the caller of main: once the error has left main, anvil   *)
(* is not running.                                                         *)
(***************************************************************************)
C6_TerminatedBeforeErrorPropagates ==
    /\ StageFailed => anvil = "terminated" /\ terminations = 1
    /\ pc = "except" => anvil = "running" /\ error.type \notin {Null, "KeyboardInterrupt"}

\* The last stage failed: the clipboard could not be written.
C6_Witness == StageFailed /\ error.type = "PyperclipException"

(***************************************************************************)
(* C7: on every exit path of a run that launched anvil (normal completion  *)
(* after the interactive wait, error, or SIGINT/SIGTERM at any point after *)
(* the launch) anvil is terminated exactly once. Violated: a signal that   *)
(* arrives before wait() installed the handlers ends the run with anvil    *)
(* running.                                                                *)
(***************************************************************************)
C7_TerminatedExactlyOnce == Ended /\ anvil # "none" => terminations = 1

\* Seeding and the block context have been issued and answered in full.
Seeded ==
    /\ Len(calls) >= Len(SeedingRequests)
    /\ \A k \in 1..Len(SeedingRequests) : calls[k].ok

(***************************************************************************)
(* C8: if the decoded block has zero transactions, the run fails with the  *)
(* error "Could not find transaction in test data" at the empty check, and *)
(* no transaction submission and no post-state read is ever issued.        *)
(***************************************************************************)
C8_EmptyBlockFails ==
    anvil # "none" /\ Len(TheTxs) = 0 =>
      /\ \A k \in DOMAIN calls : ~IsSubmit(calls[k]) /\ ~IsRead(calls[k])
      /\ pc \notin {"send_transaction", "wait_for_transaction_receipt",
                   "check_post_state", "diagnostics", "wait", "waiting", "exited"}
      /\ pc = "except" /\ Seeded =>
           /\ error.type = "ValueError"
           /\ error.msg = "Could not find transaction in test data"

\* A run that seeded two accounts and failed at the empty check.
C8_Witness ==
    /\ pc = "raised"
    /\ error.msg = "Could not find transaction in test data"
    /\ Len(test.pre) = 2
    /\ Len(calls) = Len(SeedingRequests)

(***************************************************************************)
(* C9: every error is fatal; nothing is retried or rolled back. A request  *)
(* that failed is the last request the environment receives from the run,  *)
(* and once an error has been raised no request is issued and the          *)
(* environment's state is not changed.                                     *)
(***************************************************************************)
C9_NothingAfterFailure ==
    /\ [](\A k \in DOMAIN calls : ~calls[k].ok => k = Len(calls))
    /\ [][error.type # Null => calls' = calls /\ node' = node]_vars

\* The second transaction was not confirmed, after the first one was.
C9_Witness ==
    /\ pc = "raised"
    /\ error.type = "TimeExhausted"
    /\ Len(tx_hashes) = 1
    /\ ~calls[Len(calls)].ok

\* The corpus files whose name contains the test name and the parent folder.
Matches ==
    {f \in DOMAIN corpus : IsSubstr(TEST_NAME, f) /\ IsSubstr(TEST_PARENT_FOLDER, f)}

\* get_test_file has raised.
LoaderFailed == pc = "raised" /\ fileReads = <<>> /\ error.type = "ValueError"

\* The run was interrupted before get_test_file returned or raised.
InterruptedAtStart ==
    /\ fileReads = <<>>
    /\ \/ pc = "killed"
       \/ pc = "raised" /\ error.type = "KeyboardInterrupt"

(***************************************************************************)
(* C10: the outcome of get_test_file is determined by the number m of      *)
(* corpus files whose name contains both the test name and the parent      *)
(* folder. m = 1: that file is read and its parsed content returned.       *)
(* m = 0: the error about the 255 characters if the test name is longer    *)
(* than 255, the not-found error otherwise. m >= 2: the ambiguity error if *)
(* the parent folder is empty, the plain not-found error if it is not. No  *)
(* file is read when m # 1.                                                *)
(***************************************************************************)
C10_LoaderOutcome ==
    LET m == Cardinality(Matches) IN
    /\ m # 1 => fileReads = <<>>
    /\ pc # "get_test_file" /\ ~InterruptedAtStart =>
         /\ m = 1 =>
              /\ fileReads = <<CHOOSE f \in Matches : TRUE>>
              /\ test = corpus[CHOOSE f \in Matches : TRUE]
         /\ m # 1 => LoaderFailed
         /\ m = 0 /\ Len(TEST_NAME) > 255 =>
              error.msg = "exceeds the maximum length of 255 characters"
         /\ m = 0 /\ Len(TEST_NAME) <= 255 =>
              error.msg = "not found: use the valid EF-Test name"
         /\ m >= 2 /\ TEST_PARENT_FOLDER = <<>> =>
              error.msg = "is ambiguous, please set TEST_PARENT_FOLDER"
         /\ m >= 2 /\ TEST_PARENT_FOLDER # <<>> => error.msg = "not found"

\* Two files match although a parent folder is set.
C10_Witness ==
    /\ LoaderFailed
    /\ Cardinality(Matches) >= 2
    /\ TEST_PARENT_FOLDER # <<>>

\* The test vector with every expected balance, nonce and storage value of
\* postState written with z more leading zeros.
PadExpected(data, z) ==
    [data EXCEPT !.postState =
        [j \in DOMAIN @ |->
            <<@[j][1],
              [@[j][2] EXCEPT
                 !.balance = Pad(@, z),
                 !.nonce = Pad(@, z),
                 !.storage = [s \in DOMAIN @ |-> <<@[s][1], Pad(@[s][2], z)>>]]>>]]

(***************************************************************************)
(* C11: verification compares numbers by value, not by string form. The    *)
(* outcome of the verification (the queries issued, success or failure,    *)
(* the address and field named, the expected and the live number) is the   *)
(* one check_post_state gives with every expected balance, nonce and       *)
(* storage value written with more leading zeros; and when the first       *)
(* account's expected balance denotes another number than the live balance *)
(* and the reads are answered, the failure names the field balance.        *)
(***************************************************************************)
C11_ComparedByValue ==
    Verified \/ VerificationFailed =>
      /\ \A z \in 1..(MaxPad + 1) :
           LET r == check_post_state(node, PadExpected(test, z), FailedRead)
           IN  /\ r.calls = Reads
               /\ (r.exc.type = Null) = Verified
               /\ VerificationFailed =>
                    /\ r.exc.address = error.address
                    /\ r.exc.got.type = error.got.type
                    /\ r.exc.got.field = error.got.field
                    /\ error.got.type = "AssertionError" =>
                         /\ r.exc.got.expected = error.got.expected
                         /\ r.exc.got.actual = error.got.actual
      /\ \A j \in DOMAIN test.postState :
           LET address == to_checksum_address(test.postState[j][1])
               account == test.postState[j][2]
           IN  /\ j = 1
               /\ address # BEACON_ROOT_ADDRESS
               /\ node.balance[address] # HexToInt(account.balance)
               /\ FailedRead = 0
               => /\ VerificationFailed
                  /\ error.got.field = "balance"
                  /\ error.got.expected = HexToInt(account.balance)
                  /\ error.got.actual = node.balance[address]

\* A verification that returned with an expected balance and an expected
\* storage value written with leading zeros.
C11_Witness ==
    /\ Verified
    /\ \E j, k \in DOMAIN test.postState :
         /\ Len(test.postState[j][2].balance) > 1
         /\ test.postState[j][2].balance[1] = 0
         /\ Len(test.postState[k][2].storage) > 0
         /\ test.postState[k][2].storage[1][2][1] = 0
         /\ to_checksum_address(test.postState[j][1]) # BEACON_ROOT_ADDRESS
         /\ to_checksum_address(test.postState[k][1]) # BEACON_ROOT_ADDRESS

\* The stub environment holds, and reads back, what the account of pre was
\* seeded with.
ReadsBackSeeded(nd, address, account) ==
    /\ AccountMatches(nd, address, account)
    /\ NodeRead(nd, Request("eth_getBalance", <<address>>)) = HexToInt(account.balance)
    /\ NodeRead(nd, Request("eth_getTransactionCount", <<address>>))
         = HexToInt(account.nonce)
    /\ NodeRead(nd, Request("eth_getCode", <<address>>)) = FromHex(account.code)
    /\ \A s \in DOMAIN account.storage :
         IntFromBytes(NodeRead(nd, Request("eth_getStorageAt",
                        <<address, Hex64(HexToInt(account.storage[s][1]))>>)))
           = HexToInt(account.storage[s][2])

(***************************************************************************)
(* C12: against the stub environment that stores what the administrative   *)
(* calls set (it refuses none), after set_pre_state every account of       *)
(* pre reads back its seeded code, balance and nonce, and every seeded     *)
(* storage slot reads back its seeded value under the key normalised to 32 *)
(* bytes (64 digits), whatever leading zeros the key and the value had in  *)
(* the test vector.                                                        *)
(***************************************************************************)
C12_SeededReadsBack ==
    pc = "set_block" /\ node.refuses = {} =>
      /\ \A j \in DOMAIN test.pre :
           ReadsBackSeeded(node, to_checksum_address(test.pre[j][1]), test.pre[j][2])
      /\ \A k \in DOMAIN calls :
           calls[k].method = "anvil_setStorageAt" =>
             /\ Len(calls[k].params[2]) = HexWidth
             /\ Len(calls[k].params[3]) = HexWidth

\* Two accounts were seeded, one with storage keys written with leading
\* zeros.
C12_Witness ==
    /\ pc = "set_block"
    /\ Len(test.pre) = 2
    /\ \E j \in DOMAIN test.pre :
         /\ Len(test.pre[j][2].storage) = 2
         /\ Len(test.pre[j][2].storage[2][1]) > 1
         /\ HexToInt(test.pre[j][2].storage[2][1]) # 0

\* The administrative requests issued so far.
AdminCalls == SelectSeq(calls, IsAdmin)

\* The methods of set_block.
BlockMethods ==
    {"anvil_setChainId", "anvil_setCoinbase", "anvil_setNextBlockBaseFeePerGas",
     "evm_setBlockGasLimit"}

\* Where an administrative request stands in the order the seeder is to
\* follow: <<0, account of pre, step within the account, storage slot>> for
\* an account's request, <<1, 0, step, 0>> for a block-context request.
Place(c) ==
    IF c.method \in BlockMethods
    THEN <<1, 0,
           CASE c.method = "anvil_setChainId" -> 1
             [] c.method = "anvil_setCoinbase" -> 2
             [] c.method = "anvil_setNextBlockBaseFeePerGas" -> 3
             [] c.method = "evm_setBlockGasLimit" -> 4,
           0>>
    ELSE LET j == CHOOSE a \in DOMAIN test.pre : test.pre[a][1] = c.params[1]
             storage == test.pre[j][2].storage
         IN  CASE c.method = "anvil_setCode" -> <<0, j, 1, 0>>
               [] c.method = "anvil_setBalance" -> <<0, j, 2, 0>>
               [] c.method = "anvil_setNonce" -> <<0, j, 3, 0>>
               [] c.method = "anvil_setStorageAt" ->
                    <<0, j, 4, CHOOSE s \in DOMAIN storage :
                                 HexToInt(storage[s][1]) = HexToInt(c.params[2])>>

\* p comes strictly before q.
Before(p, q) ==
    \E k \in 1..4 : p[k] < q[k] /\ \A l \in 1..(k - 1) : p[l] = q[l]

\* A request with the method is in the log for the address.
SeededWith(admin, method, address) ==
    \E k \in DOMAIN admin : admin[k].method = method /\ admin[k].params[1] = address

(***************************************************************************)
(* C13: the seeder issues its administrative calls in a fixed order:       *)
(* accounts one at a time in the stored order of pre; within an account    *)
(* set-code, set-balance, set-nonce, then every storage slot of that       *)
(* account in stored order, all before any call for the next account; the  *)
(* block-context calls after the last account, in the order chain id (when *)
(* issued), coinbase, next base fee, gas limit. No call is issued twice,   *)
(* and once seeding is over none is missing. Stated where set_pre_state or *)
(* set_block has just ended; no administrative call is issued later (C1).  *)
(***************************************************************************)
C13_SeedingOrder ==
    calls # <<>> /\ pc \in {"set_block", "get_block", "except"} =>
      LET admin == AdminCalls IN
      /\ \A k \in 1..(Len(admin) - 1) : Before(Place(admin[k]), Place(admin[k + 1]))
      /\ pc = "get_block" =>
           /\ \A j \in DOMAIN test.pre :
                /\ SeededWith(admin, "anvil_setCode", test.pre[j][1])
                /\ SeededWith(admin, "anvil_setBalance", test.pre[j][1])
                /\ SeededWith(admin, "anvil_setNonce", test.pre[j][1])
                /\ \A s \in DOMAIN test.pre[j][2].storage :
                     \E k \in DOMAIN admin :
                       /\ admin[k].method = "anvil_setStorageAt"
                       /\ admin[k].params[1] = test.pre[j][1]
                       /\ HexToInt(admin[k].params[2])
                            = HexToInt(test.pre[j][2].storage[s][1])
           /\ \A method \in BlockMethods \ {"anvil_setChainId"} :
                \E k \in DOMAIN admin : admin[k].method = method

\* Seeding is over: two accounts, one with two storage slots, and a chain id.
C13_Witness ==
    /\ pc = "get_block"
    /\ Len(test.pre) = 2
    /\ Len(test.pre[2][2].storage) = 2
    /\ \E k \in DOMAIN calls : calls[k].method = "anvil_setChainId"

\* set_block has returned.
BlockContextSet ==
    pc \in {"get_block", "send_transaction", "wait_for_transaction_receipt",
            "check_post_state", "diagnostics", "wait", "waiting"}

(***************************************************************************)
(* C14: the set-chain-id call is issued at most once per run; it is issued *)
(* only if the block has at least one transaction whose first transaction  *)
(* has a chain id, and then with that chain id, whatever chain ids the     *)
(* later transactions declare; and once set_block has returned it has been *)
(* issued if the first transaction has a chain id.                         *)
(***************************************************************************)
C14_ChainIdOfFirstTransaction ==
    calls # <<>> =>
      LET txs == TheTxs
          issued == {k \in DOMAIN calls : calls[k].method = "anvil_setChainId"}
          first == Len(txs) > 0 /\ txs[1].chain_id # NoChainId
      IN
      /\ Cardinality(issued) <= 1
      /\ \A k \in issued : first /\ calls[k].params = <<txs[1].chain_id[1]>>
      /\ BlockContextSet /\ first =>
           /\ issued # {}
           /\ "anvil_setChainId" \notin node.refuses =>
                node.chainId = txs[1].chain_id[1]
      /\ issued = {} => node.chainId = FreshNode.chainId

\* Two transactions that declare different chain ids were replayed.
C14_Witness ==
    /\ pc = "check_post_state"
    /\ Len(TheTxs) = 2
    /\ TheTxs[1].chain_id # NoChainId
    /\ TheTxs[2].chain_id # NoChainId
    /\ TheTxs[1].chain_id # TheTxs[2].chain_id

(***************************************************************************)
(* C15: a connectivity or read failure is never reported as a state        *)
(* mismatch. The error "Post state does not match" is raised only when a   *)
(* compared live value differs from its expected value, and a read query   *)
(* of the verification that fails propagates as the connectivity error it  *)
(* is. Violated: the `except Exception` of check_post_state catches the    *)
(* error of the read query and raises the mismatch error in its place.     *)
(***************************************************************************)
C15_ReadFailureNotAMismatch ==
    /\ VerificationFailed =>
         /\ error.got.type = "AssertionError"
         /\ ~AllMatch(node, test.postState)
    /\ pc = "except" /\ FailedRead # 0 => error.type = ConnectionError.type

\* The call was answered with a failure result: it did not raise, and the
\* environment refuses its method.
Refused(c) == c.ok /\ c.method \in node.refuses

\* Seeding or the block context was cut short: a request of theirs is the
\* last one issued and it was not the last of set_block, or it raised.
SeedingAborted ==
    /\ pc = "except"
    /\ calls # <<>>
    /\ IsAdmin(calls[Len(calls)])
    /\ Len(calls) < Len(SeedingRequests) \/ ~calls[Len(calls)].ok

(***************************************************************************)
(* C16: each seeding or block-context call is fire-and-forget. A call that *)
(* returns a failure result (without a connectivity error) does not abort  *)
(* the run: no error is raised for it, the next call is issued and replay  *)
(* follows; only a connectivity error aborts seeding.                      *)
(***************************************************************************)
C16_FireAndForget ==
    calls # <<>> =>
      LET n == Len(SeedingRequests) IN
      /\ SeedingAborted =>
           /\ error.type = ConnectionError.type
           /\ ~calls[Len(calls)].ok
      /\ \A k \in DOMAIN calls :
           Refused(calls[k]) /\ IsAdmin(calls[k]) /\ k = Len(calls) =>
             /\ pc \in {"set_block", "get_block", "send_transaction", "except",
                        "raised", "killed"}
             /\ pc = "set_block" => k = Len(PreStateRequests(test.pre))
             /\ pc \in {"get_block", "send_transaction"} => k = n
             /\ \/ error.type \in {Null, "KeyboardInterrupt"}
                \/ k = n /\ error.msg = "Could not find transaction in test data"
      /\ BlockContextSet => Len(calls) >= n /\ \A k \in 1..n : calls[k].ok

\* A transaction was submitted although a seeding call and a block-context
\* call had returned a failure result.
C16_Witness ==
    /\ \E k \in DOMAIN calls : IsSubmit(calls[k])
    /\ \E k \in DOMAIN calls : Refused(calls[k]) /\ calls[k].method = "anvil_setBalance"
    /\ \E k \in DOMAIN calls : Refused(calls[k]) /\ calls[k].method = "evm_setBlockGasLimit"
    /\ node.gasLimit = FreshNode.gasLimit

\* The request is a confirmation that was answered.
IsConfirmed(c) == IsConfirm(c) /\ c.ok

\* The replay loop has been left by its end.
ReplayCompleted == pc \in {"check_post_state", "diagnostics", "wait", "waiting"}

(***************************************************************************)
(* C17: at every point of the replay loop tx_hashes is exactly the         *)
(* identifiers of the confirmed prefix of the block's transactions, in     *)
(* list order: an identifier is recorded only after its transaction was    *)
(* confirmed, never twice, and when replay completes there is exactly one  *)
(* identifier per transaction of the block, so the list is not empty when  *)
(* the diagnostics read its first element.                                 *)
(***************************************************************************)
C17_IdentifiersOfConfirmedPrefix ==
    anvil # "none" =>
      LET txs == TheTxs
          confirmed == SelectSeq(calls, IsConfirmed)
      IN
      /\ Len(tx_hashes) = Len(confirmed)
      /\ Len(tx_hashes) <= Len(txs)
      /\ \A k \in DOMAIN tx_hashes :
           /\ tx_hashes[k] = HashHex(EncodeTx(txs[k]))
           /\ confirmed[k].params = <<tx_hashes[k]>>
           /\ \A l \in DOMAIN tx_hashes : l # k => tx_hashes[l] # tx_hashes[k]
      /\ ReplayCompleted => Len(tx_hashes) = Len(txs) /\ tx_hashes # <<>>

\* The diagnostics are about to read the first of two identifiers.
C17_Witness == pc = "diagnostics" /\ Len(tx_hashes) = 2

\* The identifier was handed to `cast run`.
Surfaced(h) == \E j \in DOMAIN output : output[j] = <<"cast run", h>>

(***************************************************************************)
(* C18: after a successful replay (every transaction of the block          *)
(* submitted and confirmed) the identifier of each confirmed transaction   *)
(* is surfaced as diagnostic output, whatever the result of the post-state *)
(* verification that follows. Violated: the diagnostics come after         *)
(* check_post_state inside the same try, so a failed verification skips    *)
(* them.                                                                   *)
(***************************************************************************)
C18_IdentifiersSurfaced ==
    /\ anvil # "none"
    /\ \/ pc = "wait"
       \/ pc = "raised" /\ error.msg = "Post state does not match"
    => /\ Len(tx_hashes) = Len(TheTxs)
       /\ \A k \in DOMAIN tx_hashes : Surfaced(tx_hashes[k])

(***************************************************************************)
(* C19: anvil is launched only after the test vector was loaded and its    *)
(* first block decoded. When get_test_file fails, or the block cannot be   *)
(* decoded, no process is ever launched in that run.                       *)
(***************************************************************************)
C19_LaunchedAfterDecoding ==
    /\ anvil # "none" => fileReads # <<>> /\ get_block(test).exc.type = Null
    /\ LoaderFailed => anvil = "none" /\ terminations = 0
    /\ fileReads # <<>> =>
         (get_block(test).exc.type # Null => anvil = "none" /\ terminations = 0)

\* The run ended at the launch because the block of the loaded test vector
\* cannot be decoded.
C19_Witness ==
    /\ pc = "raised"
    /\ error.msg = "Could not launch anvil"
    /\ fileReads # <<>>
    /\ test.blocks # <<>>
    /\ get_block(test).exc.type # Null

\* The environments to compare a run's environment with: one field of one
\* account changed (the balance, the nonce, the code, or a storage slot).
Perturbed(nd) ==
    {[nd EXCEPT !.balance[a] = @ + 1] : a \in Accounts}
    \cup {[nd EXCEPT !.nonce[a] = @ + 1] : a \in Accounts}
    \cup {[nd EXCEPT !.code[a] = @ \o <<9>>] : a \in Accounts}
    \cup {[nd EXCEPT !.storage[a] = StoreSlot(@, k, SlotOf(@, k) + 1)] :
            a \in Accounts, k \in {0, 1, 7}}

\* Two environments agree on what postState names: the balance, the nonce,
\* the code and the named storage slots of every address but the beacon
\* root.
Agree(n1, n2, postState) ==
    \A j \in DOMAIN postState :
      LET a == to_checksum_address(postState[j][1])
          storage == postState[j][2].storage
      IN  a # BEACON_ROOT_ADDRESS =>
            /\ n1.balance[a] = n2.balance[a]
            /\ n1.nonce[a] = n2.nonce[a]
            /\ n1.code[a] = n2.code[a]
            /\ \A s \in DOMAIN storage :
                 SlotOf(n1.storage[a], HexToInt(storage[s][1]))
                   = SlotOf(n2.storage[a], HexToInt(storage[s][1]))

(***************************************************************************)
(* C20: the outcome of the verification depends only on the fields named   *)
(* in postState. In every environment that agrees with the run's on the    *)
(* balance, nonce, code and named storage slots of every address of        *)
(* postState but the beacon root, check_post_state gives the run's result  *)
(* (the same queries, success or failure, address, field and values), even *)
(* when the environments differ in accounts absent from postState or in    *)
(* storage slots that postState does not name.                             *)
(***************************************************************************)
C20_OnlyNamedFieldsMatter ==
    Verified \/ VerificationFailed =>
      \A nd \in Perturbed(node) :
        Agree(node, nd, test.postState) =>
          LET r == check_post_state(nd, test, FailedRead)
          IN  /\ r.calls = Reads
              /\ (r.exc.type = Null) = Verified
              /\ VerificationFailed =>
                   /\ r.exc.address = error.address
                   /\ r.exc.got.type = error.got.type
                   /\ r.exc.got.field = error.got.field
                   /\ error.got.type = "AssertionError" =>
                        /\ r.exc.got.expected = error.got.expected
                        /\ r.exc.got.actual = error.got.actual

\* A verification that returned for the recipient alone, although the
\* recipient holds a non-zero storage slot that postState does not name.
C20_Witness ==
    /\ Verified
    /\ Len(test.postState) = 1
    /\ \E j \in DOMAIN test.postState :
         /\ to_checksum_address(test.postState[j][1]) = RECIPIENT_CHECKSUM
         /\ SlotOf(node.storage[RECIPIENT_CHECKSUM], 0) # 0
         /\ \A s \in DOMAIN test.postState[j][2].storage :
              HexToInt(test.postState[j][2].storage[s][1]) # 0

====
